---- MODULE Spec2Model ----
(***************************************************************************)
(* BoolReminder: Bollinger-band calculator, watchlist scan and             *)
(* classification, result model (to_dict / from_dict) and report           *)
(* retention.                                                              *)
(*                                                                         *)
(* Numbers.  Python floats are modelled by exact rationals.  A price is an *)
(* integer count of units of 1/den (den = 1: whole currency units; a large *)
(* den: prices finer than the fourth decimal place).  A band value         *)
(* returned by calculate_boll is round(x, 4), i.e. an integer count of     *)
(* units of 1/RoundScale.  Percentages are reduced fractions [num, den].   *)
(* Products that do not fit the integer width are never formed: they are   *)
(* compared by CmpProd.                                                    *)
(***************************************************************************)
EXTENDS Integers, Sequences, FiniteSets, TLC

VARIABLES
    \* ---- calculator harness (boll_calculator.py) ----
    closes,        \* the price series handed to calculate_boll
    period,        \* BOLLCalculator.period / analyze_all_stocks(period=)
    k,             \* BOLLCalculator.k
    den,           \* price units per currency unit (representation of floats)
    boll,          \* what calculate_boll gave for closes
    \* ---- scan (watchlist_boll_filter.py) ----
    symbols,       \* the watchlist handed to analyze_all_stocks
    threshold,     \* analyze_all_stocks(threshold=), a fraction
    pc,            \* where main / run_analysis_and_notify stands
    idx,           \* position of the for loop of analyze_all_stocks
    result,        \* the WatchlistBollFilterResult being built
    analyzed,      \* history: every StockInfo built, with the bucket it got
    skipped,       \* history: every instrument whose data failed, with the cause
    clock,         \* wall clock, one tick per provider round trip
    latest_json,   \* content of report/latest_result.json
    loaded,        \* what load_latest_result returned
    \* ---- retention (_cleanup_old_reports) ----
    report_dir,       \* the boll_report_* files of report/
    now,              \* time.time(), in seconds
    cleanup_section,  \* the report_cleanup section of config.yaml
    before_cleanup,   \* history: report_dir when the last cleanup began
    rpc,              \* "ready"; after _cleanup_old_reports "cleaned" (it
                      \* returned) or "raised" (an exception left it)
    fault,            \* what goes wrong with one file during the save or the cleanup
    \* ---- callers of run_analysis_and_notify (web/app.py, task_scheduler.py) ----
    caller,           \* "trigger" (api_trigger) or "job" (_run_analysis_job)
    latest_result,    \* the global latest_result of web/app.py
    response,         \* what api_trigger answered: "none" yet, "success", "error"
    runs,             \* per thread: where its run_analysis_and_notify stands
    manager_config,   \* ConfigManager.config of the web application, in memory
    config_file,      \* config/config.yaml
    token_reply,      \* the last answer of api_update_token, with its request
    \* ---- the schedule (task_scheduler.py, scheduler/__init__.py, api_schedule) ----
    schedule_config,     \* the schedule section of the scheduler's ConfigManager, in memory
    schedule_file,       \* the schedule section of config/config.yaml
    job_trigger,         \* the CronTrigger of the job daily_boll_analysis
    scheduler_instance,  \* _scheduler_instance of the scheduler package
    schedule_reply       \* the last call of update_schedule or answer of api_schedule

calcVars == <<closes, boll>>
paramVars == <<period, k, den>>
scanVars == <<symbols, threshold, pc, idx, result, analyzed, skipped, clock,
             latest_json, loaded>>
retVars == <<report_dir, now, cleanup_section, before_cleanup, rpc, fault>>
schedVars == <<schedule_config, schedule_file, job_trigger, scheduler_instance, schedule_reply>>
serveVars == <<runs, manager_config, config_file, token_reply, schedVars>>
webVars == <<caller, latest_result, response, serveVars>>
vars == <<closes, period, k, den, boll, symbols, threshold, pc, idx, result,
          analyzed, skipped, clock, latest_json, loaded,
          report_dir, now, cleanup_section, before_cleanup, rpc, fault,
          caller, latest_result, response, runs, manager_config, config_file, token_reply,
          schedule_config, schedule_file, job_trigger, scheduler_instance, schedule_reply>>

----------------------------------------------------------------------------
(* Exact arithmetic helpers *)

Abs(x) == IF x < 0 THEN -x ELSE x

Sign(x) == IF x < 0 THEN -1 ELSE IF x > 0 THEN 1 ELSE 0

RECURSIVE GCD(_, _)
GCD(a, b) == IF b = 0 THEN a ELSE GCD(b, a % b)

\* sign of a/c - d/b for a, d >= 0 and c, b > 0, by continued fractions
RECURSIVE CmpFrac(_, _, _, _)
CmpFrac(a, c, d, b) ==
    LET q1 == a \div c
        q2 == d \div b
        r1 == a % c
        r2 == d % b
    IN  IF q1 # q2 THEN Sign(q1 - q2)
        ELSE IF r1 = 0 /\ r2 = 0 THEN 0
        ELSE IF r1 = 0 THEN -1
        ELSE IF r2 = 0 THEN 1
        ELSE CmpFrac(b, r2, c, r1)

\* sign of a*b - c*d for a, b, c, d >= 0, without forming the products
CmpProd(a, b, c, d) ==
    IF c = 0 \/ d = 0 THEN (IF a = 0 \/ b = 0 THEN 0 ELSE 1)
    ELSE IF a = 0 \/ b = 0 THEN -1
    ELSE CmpFrac(a, c, d, b)

\* a float as a reduced fraction with a positive denominator
Rat(n, d) ==
    LET g == GCD(Abs(n), Abs(d))
        s == IF d < 0 THEN -1 ELSE 1
    IN  [num |-> s * (n \div g), den |-> s * (d \div g)]

\* sign of x - y for fractions x, y
RatCmp(x, y) ==
    IF Sign(x.num) # Sign(y.num) THEN Sign(Sign(x.num) - Sign(y.num))
    ELSE IF x.num >= 0 THEN CmpProd(x.num, y.den, y.num, x.den)
    ELSE CmpProd(-y.num, x.den, -x.num, y.den)

RatAbs(x) == [num |-> Abs(x.num), den |-> x.den]

RECURSIVE SeqSum(_)
SeqSum(s) == IF s = <<>> THEN 0 ELSE Head(s) + SeqSum(Tail(s))

RECURSIVE SeqSumSq(_)
SeqSumSq(s) == IF s = <<>> THEN 0 ELSE Head(s) * Head(s) + SeqSumSq(Tail(s))

SeqMin(s) == CHOOSE x \in {s[i] : i \in DOMAIN s} : \A j \in DOMAIN s : x <= s[j]

SeqMax(s) == CHOOSE x \in {s[i] : i \in DOMAIN s} : \A j \in DOMAIN s : x >= s[j]

----------------------------------------------------------------------------
(* boll_calculator.py *)

\* round(x, 4): the results are multiples of 1/RoundScale
RoundScale == 10000

\* BOLLCalculator.__init__ defaults
DefaultPeriod == 22
DefaultK == 2

\* closes[-period:]
RecentCloses(cl, p) == SubSeq(cl, Len(cl) - p + 1, Len(cl))

\* statistics.stdev(data)^2 as a fraction: sum((x - mean)^2) / (n - 1),
\* where n * sum((x - mean)^2) = n * sum(x^2) - sum(x)^2
PopulationVariance(w) ==
    LET n == Len(w)
    IN  Rat(n * SeqSumSq(w) - SeqSum(w) * SeqSum(w), n * n)

SampleVariance(w) ==
    LET n == Len(w)
    IN  Rat(n * SeqSumSq(w) - SeqSum(w) * SeqSum(w), n * (n - 1))

\* The real number x = mean + c * sqrt(var), in price units, is kept as the
\* record [mean, c, var].  HalfUpAtLeast(x, dn, m): RoundScale * x / dn >= m - 1/2.
\* With y / dd = (m - 1/2) * dn / RoundScale - mean, this is c * sqrt(var) >= y / dd.
TieGap(x, dn, m) ==
    LET g  == GCD(RoundScale, dn)
        sn == RoundScale \div g
        sd == dn \div g
    IN  [y  |-> sd * (2 * m - 1) * x.mean.den - 2 * sn * x.mean.num,
         dd |-> 2 * sn * x.mean.den]

\* sign of c^2 * var - (y / dd)^2
SurdCmp(x, t) ==
    CmpProd(x.c * x.c * x.var.num * t.dd, t.dd, Abs(t.y) * x.var.den, Abs(t.y))

HalfUpAtLeast(x, dn, m) ==
    LET t == TieGap(x, dn, m)
    IN  IF x.c > 0 THEN t.y <= 0 \/ SurdCmp(x, t) >= 0
        ELSE IF x.c < 0 THEN t.y <= 0 /\ SurdCmp(x, t) <= 0
        ELSE t.y <= 0

ExactTie(x, dn, m) ==
    LET t == TieGap(x, dn, m)
    IN  IF x.c = 0 \/ x.var.num = 0 THEN t.y = 0
        ELSE Sign(t.y) = Sign(x.c) /\ SurdCmp(x, t) = 0

RECURSIVE Bisect(_, _, _, _)
Bisect(x, dn, lo, hi) ==
    IF hi - lo <= 1 THEN lo
    ELSE LET m == (lo + hi) \div 2
         IN  IF HalfUpAtLeast(x, dn, m) THEN Bisect(x, dn, m, hi)
             ELSE Bisect(x, dn, lo, m)

\* round(x, 4) of x = mean + c * sqrt(var) price units, ties to even;
\* [lo, hi] brackets the value: sqrt(var) <= 2 * (max - min)
Round4(x, dn, pmin, pmax) ==
    LET spread == 2 * Abs(x.c) * (pmax - pmin)
        lo == ((pmin - spread) * RoundScale) \div dn - 1
        hi == ((pmax + spread) * RoundScale) \div dn + 2
        m  == Bisect(x, dn, lo, hi)
    IN  IF ExactTie(x, dn, m) /\ m % 2 = 1 THEN m - 1 ELSE m

NoBands == [kind |-> "none", upper |-> 0, mid |-> 0, lower |-> 0]

StatisticsError == [kind |-> "raise", upper |-> 0, mid |-> 0, lower |-> 0]

\* BOLLCalculator(period, k).calculate_boll(closes), prices in units of 1/dn
CalculateBollPopulation(cl, p, kk, dn) ==
    IF Len(cl) < p THEN NoBands
    ELSE IF p < 2 THEN StatisticsError
    ELSE LET w    == RecentCloses(cl, p)
             mean == Rat(SeqSum(w), p)
             var  == PopulationVariance(w)
             lo   == SeqMin(w)
             hi   == SeqMax(w)
         IN  [kind  |-> "bands",
              upper |-> Round4([mean |-> mean, c |-> kk, var |-> var], dn, lo, hi),
              mid   |-> Round4([mean |-> mean, c |-> 0, var |-> var], dn, lo, hi),
              lower |-> Round4([mean |-> mean, c |-> -kk, var |-> var], dn, lo, hi)]

CalculateBollWholeSeries(cl, p, kk, dn) ==
    IF Len(cl) < p THEN NoBands
    ELSE IF p < 2 THEN StatisticsError
    ELSE LET w    == cl
             mean == Rat(SeqSum(w), Len(w))
             var  == SampleVariance(w)
             lo   == SeqMin(w)
             hi   == SeqMax(w)
         IN  [kind  |-> "bands",
              upper |-> Round4([mean |-> mean, c |-> kk, var |-> var], dn, lo, hi),
              mid   |-> Round4([mean |-> mean, c |-> 0, var |-> var], dn, lo, hi),
              lower |-> Round4([mean |-> mean, c |-> -kk, var |-> var], dn, lo, hi)]

CalculateBoll(cl, p, kk, dn) ==
    IF Len(cl) < p THEN NoBands
    ELSE IF p < 2 THEN StatisticsError
    ELSE LET w    == RecentCloses(cl, p)
             mean == Rat(SeqSum(w), p)
             var  == SampleVariance(w)
             lo   == SeqMin(w)
             hi   == SeqMax(w)
         IN  [kind  |-> "bands",
              upper |-> Round4([mean |-> mean, c |-> kk, var |-> var], dn, lo, hi),
              mid   |-> Round4([mean |-> mean, c |-> 0, var |-> var], dn, lo, hi),
              lower |-> Round4([mean |-> mean, c |-> -kk, var |-> var], dn, lo, hi)]

----------------------------------------------------------------------------
(* watchlist_boll_filter.py: StockInfo, classification, the result model *)

\* the securities of the account's watchlist (security.symbol, security.name)
\* with the market suffix that symbol.endswith() finds
Securities ==
    << [symbol |-> "AAPL.US",   name |-> "Apple",   suffix |-> ".US"],
       [symbol |-> "700.HK",    name |-> "Tencent", suffix |-> ".HK"],
       [symbol |-> "600000.SH", name |-> "SPDB",    suffix |-> ".SH"],
       [symbol |-> "7203.T",    name |-> "Toyota",  suffix |-> ".T"] >>

SecurityOf(symbol) ==
    Securities[CHOOSE i \in DOMAIN Securities : Securities[i].symbol = symbol]

\* "Y" stands for the yen / yuan sign
MARKET_CURRENCY ==
    [suffix \in {".US", ".HK", ".SH", ".SZ", ".T", ".SI"} |->
        CASE suffix = ".US" -> <<"$", "USD">>
          [] suffix = ".HK" -> <<"H", "HKD">>
          [] suffix = ".SH" -> <<"Y", "CNY">>
          [] suffix = ".SZ" -> <<"Y", "CNY">>
          [] suffix = ".T"  -> <<"Y", "JPY">>
          [] suffix = ".SI" -> <<"S$", "SGD">>]

get_currency_info(symbol) ==
    LET suffix == SecurityOf(symbol).suffix
    IN  IF suffix \in DOMAIN MARKET_CURRENCY THEN MARKET_CURRENCY[suffix]
        ELSE <<"$", "USD">>

\* get_watchlist_symbols: the symbols in watchlist order, each once
RECURSIVE WatchlistSymbols(_)
WatchlistSymbols(secs) ==
    IF secs = <<>> THEN <<>>
    ELSE LET front == WatchlistSymbols(SubSeq(secs, 1, Len(secs) - 1))
             sym   == secs[Len(secs)].symbol
         IN  IF \E i \in DOMAIN front : front[i] = sym THEN front
             ELSE Append(front, sym)

\* symbol_to_name of get_watchlist_symbols
SymbolToName(syms) ==
    [sym \in {syms[i] : i \in DOMAIN syms} |-> SecurityOf(sym).name]

\* provider answers: quote_ctx.candlesticks(...) and quote_ctx.quote([symbol])
CandlesRaise == [kind |-> "raise", closes |-> <<>>]
\* the provider rejects the credentials (OpenApiException, an Exception)
CandlesAuthError == [kind |-> "auth_error", closes |-> <<>>]
CandlesOf(cl) == [kind |-> "ok", closes |-> cl]
QuoteRaise == [kind |-> "raise", last_done |-> 0]
QuoteAuthError == [kind |-> "auth_error", last_done |-> 0]
QuoteEmpty == [kind |-> "empty", last_done |-> 0]
QuoteOf(price) == [kind |-> "ok", last_done |-> price]

NoData == [kind |-> "none", current_price |-> 0, upper |-> 0, mid |-> 0, lower |-> 0]
\* an exception leaving get_stock_boll_data
DataRaised == [kind |-> "raised", current_price |-> 0, upper |-> 0, mid |-> 0, lower |-> 0]

\* the series 100, 101, ..., 121 in whole currency units
WorkedSeries == [i \in 1..DefaultPeriod |-> 99 + i]

\* the period the scan runs with: main's 22, or a short one
ScanPeriods == {3, DefaultPeriod}

\* daily closes the provider may return, in whole currency units
ScanSeries ==
    { <<98, 100, 102>>, <<99, 100, 101>>, <<100, 100, 100>>, <<0, 0, 0>>,
      <<0, 1, 2>>, <<100, 102>>, WorkedSeries }

\* last_done prices the provider may return, in whole currency units
ScanQuotes == {1, 95, 96, 99, 100, 104, 105}

\* calculate_boll on the provider's series, each computed once
BollOfSeries ==
    [cl \in ScanSeries, p \in ScanPeriods |-> CalculateBoll(cl, p, DefaultK, 1)]

calculate_boll(cl, p, kk, dn) ==
    IF cl \in ScanSeries /\ p \in ScanPeriods /\ kk = DefaultK /\ dn = 1
    THEN BollOfSeries[cl, p]
    ELSE CalculateBoll(cl, p, kk, dn)

\* why get_stock_boll_data has no data for an instrument, in the order in
\* which the code meets the causes; "none" when it has data
DataFailure(candles, quote, p, kk, dn) ==
    IF candles.kind = "raise" THEN "candles_raise"
    ELSE IF candles.kind = "auth_error" THEN "candles_auth"
    ELSE IF Len(candles.closes) < p THEN "short_history"
    ELSE IF calculate_boll(candles.closes, p, kk, dn).kind # "bands" THEN "no_bands"
    ELSE IF quote.kind = "raise" THEN "quote_raise"
    ELSE IF quote.kind = "auth_error" THEN "quote_auth"
    ELSE IF quote.kind = "empty" THEN "quote_empty"
    ELSE "none"

\* get_stock_boll_data without its try/except: an exception of the provider
\* leaves the function
get_stock_boll_data_unguarded(candles, quote, p, kk, dn) ==
    IF candles.kind # "ok" THEN DataRaised
    ELSE IF Len(candles.closes) < p THEN NoData
    ELSE LET boll_result == calculate_boll(candles.closes, p, kk, dn)
         IN  IF boll_result.kind = "raise" THEN DataRaised
             ELSE IF boll_result.kind # "bands" THEN NoData
             ELSE IF quote.kind \in {"raise", "auth_error"} THEN DataRaised
             ELSE IF quote.kind # "ok" THEN NoData
             ELSE [kind          |-> "data",
                   current_price |-> quote.last_done,
                   upper         |-> boll_result.upper,
                   mid           |-> boll_result.mid,
                   lower         |-> boll_result.lower]

\* get_stock_boll_data: None on short history, on a missing quote and on any
\* exception of the provider or of the calculator
get_stock_boll_data(candles, quote, p, kk, dn) ==
    IF candles.kind # "ok" THEN NoData
    ELSE IF Len(candles.closes) < p THEN NoData
    ELSE LET boll_result == calculate_boll(candles.closes, p, kk, dn)
         IN  IF boll_result.kind # "bands" THEN NoData
             ELSE IF quote.kind # "ok" THEN NoData
             ELSE [kind          |-> "data",
                   current_price |-> quote.last_done,
                   upper         |-> boll_result.upper,
                   mid           |-> boll_result.mid,
                   lower         |-> boll_result.lower]

\* Float comparisons and quotients of a price (units of 1/dn) and a band
\* (units of 1/RoundScale): both are brought to units of 1/(dn * RoundScale).
PriceLess(price, band, dn) == price * RoundScale < band * dn
PriceGreater(price, band, dn) == price * RoundScale > band * dn

\* (current_price - band) / band * 100
DistancePct(price, band, dn) ==
    Rat((price * RoundScale - band * dn) * 100, band * dn)

\* ((current_price - lower) / (upper - lower) * 100) if upper - lower > 0 else 50
PositionPct(price, lower, upper, dn) ==
    IF upper - lower > 0
    THEN Rat((price * RoundScale - lower * dn) * 100, (upper - lower) * dn)
    ELSE Rat(50, 1)

\* the two divisions of analyze_all_stocks raise ZeroDivisionError
DivisionByZero(data) == data.lower = 0 \/ data.upper = 0

MakeStockInfo(symbol, names, data, dn) ==
    [symbol        |-> symbol,
     display_name  |-> IF SecurityOf(symbol).suffix = ".US" THEN symbol
                       ELSE IF symbol \in DOMAIN names THEN names[symbol]
                       ELSE symbol,
     current_price |-> data.current_price,
     lower_band    |-> data.lower,
     mid_band      |-> data.mid,
     upper_band    |-> data.upper,
     distance_from_lower_pct |-> DistancePct(data.current_price, data.lower, dn),
     distance_from_upper_pct |-> DistancePct(data.current_price, data.upper, dn),
     position_pct  |-> PositionPct(data.current_price, data.lower, data.upper, dn),
     currency_symbol |-> get_currency_info(symbol)[1],
     currency_code   |-> get_currency_info(symbol)[2]]

\* threshold * 100
ThresholdPct(th) == Rat(th.num * 100, th.den)

\* the if / elif chain of analyze_all_stocks
ClassifyUpperFirst(info, th, dn) ==
    IF PriceLess(info.current_price, info.lower_band, dn) THEN "below_lower"
    ELSE IF PriceGreater(info.current_price, info.upper_band, dn) THEN "above_upper"
    ELSE IF RatCmp(RatAbs(info.distance_from_upper_pct), ThresholdPct(th)) <= 0
        THEN "near_upper"
    ELSE IF RatCmp(info.distance_from_lower_pct, ThresholdPct(th)) <= 0
        THEN "near_lower"
    ELSE "normal"

ClassifyInclusive(info, th, dn) ==
    IF ~PriceGreater(info.current_price, info.lower_band, dn) THEN "below_lower"
    ELSE IF ~PriceLess(info.current_price, info.upper_band, dn) THEN "above_upper"
    ELSE IF RatCmp(info.distance_from_lower_pct, ThresholdPct(th)) <= 0
        THEN "near_lower"
    ELSE IF RatCmp(RatAbs(info.distance_from_upper_pct), ThresholdPct(th)) <= 0
        THEN "near_upper"
    ELSE "normal"

Classify(info, th, dn) ==
    IF PriceLess(info.current_price, info.lower_band, dn) THEN "below_lower"
    ELSE IF PriceGreater(info.current_price, info.upper_band, dn) THEN "above_upper"
    ELSE IF RatCmp(info.distance_from_lower_pct, ThresholdPct(th)) <= 0
        THEN "near_lower"
    ELSE IF RatCmp(RatAbs(info.distance_from_upper_pct), ThresholdPct(th)) <= 0
        THEN "near_upper"
    ELSE "normal"

Buckets == {"below_lower", "near_lower", "near_upper", "above_upper"}

\* WatchlistBollFilterResult(period, k, threshold, all_symbols, symbol_to_name,
\* update_time); the other fields at their dataclass defaults
NewResult(p, kk, th, syms, names, stamp) ==
    [period |-> p, k |-> kk, threshold |-> th,
     total_analyzed |-> 0, total_found |-> 0, update_time |-> stamp,
     below_lower |-> <<>>, near_lower |-> <<>>,
     near_upper |-> <<>>, above_upper |-> <<>>,
     all_symbols |-> syms, symbol_to_name |-> names]

\* the chain with its last elif turned into an else: what is in no other
\* bucket goes to near_upper
AppendToSomeBucket(res, bucket, info) ==
    IF bucket \in Buckets THEN [res EXCEPT ![bucket] = Append(@, info)]
    ELSE [res EXCEPT !.near_upper = Append(@, info)]

\* result.<bucket>.append(stock_info); no append in the normal range
AppendTo(res, bucket, info) ==
    IF bucket \in Buckets THEN [res EXCEPT ![bucket] = Append(@, info)] ELSE res

\* list.sort(key=lambda x: x.<field>, reverse=...): stable in both directions
InsertByKey(sorted, x, field, reverse) ==
    LET after(e) == IF reverse THEN RatCmp(e[field], x[field]) < 0
                    ELSE RatCmp(e[field], x[field]) > 0
        n == Len(sorted)
        at == IF \E i \in 1..n : after(sorted[i])
              THEN CHOOSE i \in 1..n : after(sorted[i])
                                       /\ \A j \in 1..(i - 1) : ~after(sorted[j])
              ELSE n + 1
    IN  SubSeq(sorted, 1, at - 1) \o <<x>> \o SubSeq(sorted, at, n)

\* list.sort(key=...) with reverse=True left out
RECURSIVE SortByKeyAscending(_, _, _)
SortByKeyAscending(s, field, reverse) ==
    IF s = <<>> THEN <<>>
    ELSE InsertByKey(SortByKeyAscending(SubSeq(s, 1, Len(s) - 1), field, reverse),
                     s[Len(s)], field, FALSE)

\* list.sort(key=..., reverse=...): stable
RECURSIVE SortByKey(_, _, _)
SortByKey(s, field, reverse) ==
    IF s = <<>> THEN <<>>
    ELSE InsertByKey(SortByKey(SubSeq(s, 1, Len(s) - 1), field, reverse),
                     s[Len(s)], field, reverse)

FoundCountNoNearUpper(res) ==
    Len(res.below_lower) + Len(res.near_lower) + Len(res.above_upper)

\* len(below_lower) + len(near_lower) + len(near_upper) + len(above_upper)
FoundCount(res) ==
    Len(res.below_lower) + Len(res.near_lower)
        + Len(res.near_upper) + Len(res.above_upper)

\* the tail of analyze_all_stocks: the totals, then the four sorts
Finalize(res, total) ==
    [res EXCEPT !.total_analyzed = total,
                !.total_found    = FoundCount(res),
                !.below_lower = SortByKey(@, "distance_from_lower_pct", FALSE),
                !.near_lower  = SortByKey(@, "distance_from_lower_pct", FALSE),
                !.near_upper  = SortByKey(@, "distance_from_upper_pct", TRUE),
                !.above_upper = SortByKey(@, "distance_from_upper_pct", TRUE)]

\* WatchlistBollFilterResult._stock_info_to_dict
stock_info_to_dict(stock) ==
    [symbol        |-> stock.symbol,
     display_name  |-> stock.display_name,
     current_price |-> stock.current_price,
     lower_band    |-> stock.lower_band,
     mid_band      |-> stock.mid_band,
     upper_band    |-> stock.upper_band,
     distance_from_lower_pct |-> stock.distance_from_lower_pct,
     distance_from_upper_pct |-> stock.distance_from_upper_pct,
     position_pct  |-> stock.position_pct,
     currency_symbol |-> stock.currency_symbol,
     currency_code   |-> stock.currency_code]

DictList(stocks) == [i \in DOMAIN stocks |-> stock_info_to_dict(stocks[i])]

\* WatchlistBollFilterResult.to_dict
to_dict(res) ==
    [config  |-> [period |-> res.period, k |-> res.k, threshold |-> res.threshold],
     summary |-> [total_analyzed    |-> res.total_analyzed,
                  total_found       |-> res.total_found,
                  below_lower_count |-> Len(res.below_lower),
                  near_lower_count  |-> Len(res.near_lower),
                  near_upper_count  |-> Len(res.near_upper),
                  above_upper_count |-> Len(res.above_upper),
                  update_time       |-> res.update_time],
     results |-> [below_lower |-> DictList(res.below_lower),
                  near_lower  |-> DictList(res.near_lower),
                  near_upper  |-> DictList(res.near_upper),
                  above_upper |-> DictList(res.above_upper)],
     all_symbols    |-> res.all_symbols,
     symbol_to_name |-> res.symbol_to_name]

EmptyDict == [key \in {} |-> 0]

\* dict.get(key, default)
Get(d, key, default) == IF key \in DOMAIN d THEN d[key] ELSE default

\* StockInfo(**s)
StockInfoOf(s) ==
    [symbol        |-> s.symbol,
     display_name  |-> s.display_name,
     current_price |-> s.current_price,
     lower_band    |-> s.lower_band,
     mid_band      |-> s.mid_band,
     upper_band    |-> s.upper_band,
     distance_from_lower_pct |-> s.distance_from_lower_pct,
     distance_from_upper_pct |-> s.distance_from_upper_pct,
     position_pct  |-> s.position_pct,
     currency_symbol |-> Get(s, "currency_symbol", "$"),
     currency_code   |-> Get(s, "currency_code", "USD")]

StockList(dicts) == [i \in DOMAIN dicts |-> StockInfoOf(dicts[i])]

\* the dataclass defaults of WatchlistBollFilterResult; update_time "" is 0
DefaultThreshold == [num |-> 1, den |-> 10]
NoTime == 0

\* WatchlistBollFilterResult.from_dict
from_dict_dropping_near_upper(data) ==
    LET config  == Get(data, "config", EmptyDict)
        summary == Get(data, "summary", EmptyDict)
        results == Get(data, "results", EmptyDict)
    IN  [period    |-> Get(config, "period", DefaultPeriod),
         k         |-> Get(config, "k", DefaultK),
         threshold |-> Get(config, "threshold", DefaultThreshold),
         total_analyzed |-> Get(summary, "total_analyzed", 0),
         total_found    |-> Get(summary, "total_found", 0),
         update_time    |-> Get(summary, "update_time", NoTime),
         below_lower |-> StockList(Get(results, "below_lower", <<>>)),
         near_lower  |-> StockList(Get(results, "near_lower", <<>>)),
         near_upper  |-> StockList(Get(results, "near_uper", <<>>)),
         above_upper |-> StockList(Get(results, "above_upper", <<>>)),
         all_symbols    |-> Get(data, "all_symbols", <<>>),
         symbol_to_name |-> Get(data, "symbol_to_name", EmptyDict)]

from_dict(data) ==
    LET config  == Get(data, "config", EmptyDict)
        summary == Get(data, "summary", EmptyDict)
        results == Get(data, "results", EmptyDict)
    IN  [period    |-> Get(config, "period", DefaultPeriod),
         k         |-> Get(config, "k", DefaultK),
         threshold |-> Get(config, "threshold", DefaultThreshold),
         total_analyzed |-> Get(summary, "total_analyzed", 0),
         total_found    |-> Get(summary, "total_found", 0),
         update_time    |-> Get(summary, "update_time", NoTime),
         below_lower |-> StockList(Get(results, "below_lower", <<>>)),
         near_lower  |-> StockList(Get(results, "near_lower", <<>>)),
         near_upper  |-> StockList(Get(results, "near_upper", <<>>)),
         above_upper |-> StockList(Get(results, "above_upper", <<>>)),
         all_symbols    |-> Get(data, "all_symbols", <<>>),
         symbol_to_name |-> Get(data, "symbol_to_name", EmptyDict)]

----------------------------------------------------------------------------
(* Calculator harness: calculate_boll applied to bounded inputs *)

MaxLen == 4
FineDen == 40000
Prices == {0, 1, 2, 3}
Periods == {1, 2, 3}

Pending == [kind |-> "pending", upper |-> 0, mid |-> 0, lower |-> 0]

NoResult == [none |-> TRUE]
Missing == [missing |-> TRUE]

\* every stat and unlink of the cleanup succeeds
NoFault == [kind |-> "none", ts |-> 0]

\* the threads that may run run_analysis_and_notify: the scheduler's job
\* thread and the request threads of the web server
MaxRequests == 2
JobThread == <<"job", 0>>
Threads == {JobThread} \cup {<<"request", n>> : n \in 1..MaxRequests}

NotRunning == [at |-> "idle", result |-> NoResult]

\* config.yaml as shipped: a token, no update_password
ShippedConfig == [longbridge |-> [access_token |-> "old"], web |-> EmptyDict]
NoReply == [status |-> 0, password |-> "", token |-> ""]

\* get_schedule_config() of the default configuration
DefaultSchedule == [hour |-> 11, minute |-> 0, timezone |-> "Asia/Shanghai"]
NoScheduleReply == [op |-> "none"]

\* run.main has created the TaskScheduler: _setup_job has given the job the
\* trigger of the configuration; nobody has called set_scheduler
ScheduleIdle ==
    /\ schedule_config = DefaultSchedule
    /\ schedule_file = DefaultSchedule
    /\ job_trigger = DefaultSchedule
    /\ scheduler_instance = "None"
    /\ schedule_reply = NoScheduleReply

\* no run in flight, the configuration untouched
ServeIdle ==
    /\ runs = [t \in Threads |-> NotRunning]
    /\ manager_config = ShippedConfig
    /\ config_file = ShippedConfig
    /\ token_reply = NoReply
    /\ ScheduleIdle

\* nothing loaded at start-up, no request answered
WebIdle ==
    /\ caller = "trigger"
    /\ latest_result = NoResult
    /\ response = "none"
    /\ ServeIdle

\* an empty report directory, default configuration
RetentionIdle ==
    /\ report_dir = {}
    /\ now = 0
    /\ cleanup_section = EmptyDict
    /\ before_cleanup = {}
    /\ rpc = "ready"
    /\ fault = NoFault

\* no scan was started
ScanIdle ==
    /\ symbols = <<>>
    /\ threshold = DefaultThreshold
    /\ pc = "idle"
    /\ idx = 0
    /\ result = NoResult
    /\ analyzed = <<>>
    /\ skipped = <<>>
    /\ clock = 1
    /\ latest_json = Missing
    /\ loaded = NoResult
    /\ RetentionIdle
    /\ WebIdle

RECURSIVE SeqsUpTo(_, _)
SeqsUpTo(S, n) ==
    IF n = 0 THEN {<<>>}
    ELSE LET prev == SeqsUpTo(S, n - 1)
         IN  prev \cup {Append(s, x) : s \in {t \in prev : Len(t) = n - 1}, x \in S}

\* 21 equal closes and one a tick (0.0001) higher, in units of 0.0001
TickSeries == [i \in 1..DefaultPeriod |-> IF i = DefaultPeriod THEN 2 ELSE 1]

InitBoll ==
    /\ \/ /\ closes \in SeqsUpTo(Prices, MaxLen)
          /\ period \in Periods
          /\ k \in {1, DefaultK}
          /\ den \in {1, FineDen}
       \/ /\ closes = WorkedSeries
          /\ period = DefaultPeriod
          /\ k = DefaultK
          /\ den = 1
       \/ /\ closes = TickSeries
          /\ period = DefaultPeriod
          /\ k = DefaultK
          /\ den = RoundScale
    /\ boll = Pending
    /\ ScanIdle

Calculate ==
    /\ boll = Pending
    /\ boll' = CalculateBoll(closes, period, k, den)
    /\ UNCHANGED <<closes, paramVars, webVars, scanVars, retVars>>

\* the same call on a series with one more, earlier, price
CalculateLonger ==
    /\ boll # Pending
    /\ Len(closes) <= MaxLen
    /\ \E x \in Prices :
        /\ closes' = <<x>> \o closes
        /\ boll' = CalculateBoll(closes', period, k, den)
    /\ UNCHANGED <<paramVars, webVars, scanVars, retVars>>

NextBoll == Calculate \/ CalculateLonger

SpecBoll == InitBoll /\ [][NextBoll]_vars

----------------------------------------------------------------------------
(* Retention: get_report_cleanup_config and _cleanup_old_reports.           *)
(* A file of report/ is [prefix, ts, ext, mtime]: <prefix><ts>.<ext>, last  *)
(* written at mtime; a name without a timestamp has ts = 0. Times are       *)
(* seconds. The content of latest_result.json is kept in latest_json.       *)

DaySeconds == 86400
DefaultKeepDays == 30
DefaultKeepCount == 100

get_report_cleanup_config(section) ==
    [enabled    |-> Get(section, "enabled", TRUE),
     keep_days  |-> Get(section, "keep_days", DefaultKeepDays),
     keep_count |-> Get(section, "keep_count", DefaultKeepCount)]

ReportPrefix == "boll_report_"
LatestPrefix == "latest_result"

HtmlFile(ts) == [prefix |-> ReportPrefix, ts |-> ts, ext |-> "html", mtime |-> ts]
JsonFile(ts) == [prefix |-> ReportPrefix, ts |-> ts, ext |-> "json", mtime |-> ts]

\* report/latest_result.json, written at t
LatestResultFile(t) == [prefix |-> LatestPrefix, ts |-> 0, ext |-> "json", mtime |-> t]
\* a file of the directory that is no report: latest_result.html
StrayHtmlFile == [prefix |-> LatestPrefix, ts |-> 0, ext |-> "html", mtime |-> 0]

SameName(f, g) == f.prefix = g.prefix /\ f.ts = g.ts /\ f.ext = g.ext

\* open(path, 'w') ... close: the file of that name is replaced
WriteFile(dir, file) == {f \in dir : ~SameName(f, file)} \cup {file}

\* report_dir.glob("*.html"): the glob without the boll_report_ prefix
HtmlFilesAnyName(dir) == {f \in dir : f.ext = "html"}

\* report_dir.glob("boll_report_*.html")
HtmlFiles(dir) == {f \in dir : f.prefix = ReportPrefix /\ f.ext = "html"}

\* save_html_report and json.dump of run_analysis_and_notify, at time t
SaveReportFiles(dir, t) ==
    WriteFile(WriteFile(dir, HtmlFile(t)), JsonFile(t))

\* html_files.sort(key=st_mtime, reverse=True); files of equal mtime in name order
RECURSIVE SortByMtimeDesc(_)
SortByMtimeDesc(S) ==
    IF S = {} THEN <<>>
    ELSE LET first == CHOOSE f \in S : \A g \in S :
                          \/ f.mtime > g.mtime
                          \/ f.mtime = g.mtime /\ f.ts <= g.ts
         IN  <<first>> \o SortByMtimeDesc(S \ {first})

\* should_delete with "and" in place of "or" between the two criteria
ShouldDeleteBoth(i, f, cfg, t) ==
    /\ cfg.keep_count > 0 /\ i >= cfg.keep_count
    /\ cfg.keep_days > 0 /\ t - f.mtime > cfg.keep_days * DaySeconds

\* should_delete with the guards "> 0" written ">= 0"
ShouldDeleteZeroActive(i, f, cfg, t) ==
    \/ cfg.keep_count >= 0 /\ i >= cfg.keep_count
    \/ cfg.keep_days >= 0 /\ t - f.mtime > cfg.keep_days * DaySeconds

\* should_delete of the loop body; i is the 0-based position in the sorted
\* list; (t - mtime) / (24 * 3600) > keep_days
ShouldDelete(i, f, cfg, t) ==
    \/ cfg.keep_count > 0 /\ i >= cfg.keep_count
    \/ cfg.keep_days > 0 /\ t - f.mtime > cfg.keep_days * DaySeconds

\* What can go wrong while run_analysis_and_notify saves: save_html_report
\* raises, or open() of the timestamped JSON or of latest_result.json raises
WriteFaultKinds == {"html_write", "json_write", "latest_write"}

\* What can go wrong with the report of timestamp ts while the cleanup
\* runs: both its files are removed by someone else after the glob and
\* before the sort ("gone_early") or after the sort ("gone_late"), unlink of
\* its html raises ("html_locked"), unlink of its json raises ("json_locked").
FaultKinds == {"gone_early", "gone_late", "html_locked", "json_locked"}

Hits(flt, kinds, f) == flt.kind \in kinds /\ flt.ts = f.ts

\* the directory once the files the fault removes are gone
WithoutGone(dir, flt) ==
    {f \in dir : ~(f.prefix = ReportPrefix /\ Hits(flt, {"gone_early", "gone_late"}, f))}

\* the for loop of _cleanup_old_reports from position i (1-based) on
RECURSIVE CleanupLoop(_, _, _, _, _, _)
CleanupLoop(html_files, i, dir, cfg, t, flt) ==
    IF i > Len(html_files) THEN [dir |-> dir, raised |-> FALSE]
    ELSE LET f == html_files[i]
             twins == {g \in dir : g.prefix = f.prefix /\ g.ts = f.ts /\ g.ext = "json"}
         IN  IF cfg.keep_days > 0 /\ Hits(flt, {"gone_late"}, f)
             THEN \* html_file.stat() raises FileNotFoundError outside the try
                  [dir |-> dir, raised |-> TRUE]
             ELSE IF ~ShouldDelete(i - 1, f, cfg, t)
             THEN CleanupLoop(html_files, i + 1, dir, cfg, t, flt)
             ELSE IF Hits(flt, {"gone_late", "html_locked"}, f)
             THEN \* html_file.unlink() raises; caught, the json is not tried
                  CleanupLoop(html_files, i + 1, dir, cfg, t, flt)
             ELSE IF Hits(flt, {"json_locked"}, f)
             THEN \* json_file.unlink() raises after the html is gone; caught
                  CleanupLoop(html_files, i + 1, dir \ {f}, cfg, t, flt)
             ELSE CleanupLoop(html_files, i + 1, (dir \ {f}) \ twins, cfg, t, flt)

\* _cleanup_old_reports: the directory afterwards, and whether an exception
\* left the function. dir is the directory at the time of the glob.
CleanupRun(dir, section, t, flt) ==
    LET cfg == get_report_cleanup_config(section)
        globbed == HtmlFiles(dir)
        left == WithoutGone(dir, flt)
    IN  IF ~cfg.enabled THEN [dir |-> dir, raised |-> FALSE]
        ELSE IF globbed = {} THEN [dir |-> dir, raised |-> FALSE]
        ELSE IF \E f \in globbed : Hits(flt, {"gone_early"}, f)
        THEN \* the sort key f.stat() raises FileNotFoundError
             [dir |-> left, raised |-> TRUE]
        ELSE CleanupLoop(SortByMtimeDesc(globbed), 1, left, cfg, t, flt)

\* _cleanup_old_reports when every stat and unlink succeeds: the directory afterwards
CleanupOldReports(dir, section, t) == CleanupRun(dir, section, t, NoFault).dir

----------------------------------------------------------------------------
(* The scan: main -> analyze_all_stocks -> save -> load_latest_result *)

NumSymbols == 2

\* what quote_ctx.watchlist() may hold: a prefix of the securities, or a list
\* that names a security twice
Watchlists ==
    {SubSeq(Securities, 1, n) : n \in 0..NumSymbols}
        \cup {<<Securities[2], Securities[1], Securities[2]>>}

\* main's threshold=0.02 and the default of analyze_all_stocks, 0.10
MainThreshold == [num |-> 1, den |-> 50]
Thresholds == {MainThreshold, DefaultThreshold}

CandleAnswers == {CandlesRaise, CandlesAuthError} \cup {CandlesOf(cl) : cl \in ScanSeries}
QuoteAnswers == {QuoteRaise, QuoteAuthError, QuoteEmpty} \cup {QuoteOf(q) : q \in ScanQuotes}

\* closes and last_done prices quoted to four decimals, in units of 0.0001
FineSeries == { <<101, 102, 104>>, <<98, 100, 102>>, <<102, 104>> }
FineQuotes == {96, 99, 100, 105, 106}

\* the provider's answers when prices are in units of 1/dn
CandlesAt(dn) ==
    IF dn = 1 THEN CandleAnswers
    ELSE {CandlesRaise} \cup {CandlesOf(cl) : cl \in FineSeries}
QuotesAt(dn) ==
    IF dn = 1 THEN QuoteAnswers
    ELSE {QuoteEmpty} \cup {QuoteOf(q) : q \in FineQuotes}

Init ==
    /\ closes = <<>>
    /\ boll = Pending
    /\ period \in ScanPeriods
    /\ k = DefaultK
    /\ den = 1
    /\ \E w \in Watchlists : symbols = WatchlistSymbols(w)
    /\ threshold \in Thresholds
    /\ pc = "idle"
    /\ idx = 0
    /\ result = NoResult
    /\ analyzed = <<>>
    /\ skipped = <<>>
    /\ clock = 1
    /\ latest_json = Missing
    /\ loaded = NoResult
    /\ RetentionIdle
    /\ caller \in {"trigger", "job"}
    /\ latest_result = NoResult
    /\ response = "none"
    /\ ServeIdle

\* main: quote_ctx.watchlist() raises (credentials rejected, network); the
\* except of main prints the error and main returns None
WatchlistFails ==
    /\ pc = "idle"
    /\ pc' = "failed"
    /\ result' = NoResult
    /\ clock' = clock + 1
    /\ UNCHANGED <<calcVars, paramVars, webVars, retVars, symbols, threshold, idx, analyzed,
                   skipped, latest_json, loaded>>

\* analyze_all_stocks, up to the loop: the result object is created
StartScan ==
    /\ pc = "idle"
    /\ pc' = "scanning"
    /\ idx' = 1
    /\ result' = NewResult(period, k, threshold, symbols, SymbolToName(symbols), clock)
    /\ analyzed' = <<>>
    /\ skipped' = <<>>
    /\ UNCHANGED <<calcVars, paramVars, webVars, retVars, symbols, threshold, clock, latest_json, loaded>>

\* one pass of the for loop of analyze_all_stocks
AnalyzeStock ==
    /\ pc = "scanning"
    /\ idx <= Len(symbols)
    /\ \E candles \in CandlesAt(den), quote \in QuotesAt(den) :
        LET symbol == symbols[idx]
            data   == get_stock_boll_data(candles, quote, period, k, den)
            cause  == DataFailure(candles, quote, period, k, den)
            info   == MakeStockInfo(symbol, result.symbol_to_name, data, den)
            bucket == Classify(info, threshold, den)
        IN  /\ skipped' = IF cause = "none" THEN skipped
                          ELSE Append(skipped, [symbol |-> symbol, cause |-> cause])
            /\ IF data.kind = "none"
               THEN /\ idx' = idx + 1
                    /\ UNCHANGED <<pc, result, analyzed>>
               ELSE IF data.kind = "raised" \/ DivisionByZero(data)
               THEN \* the exception (ZeroDivisionError) leaves analyze_all_stocks;
                    \* main returns None
                    /\ pc' = "failed"
                    /\ result' = NoResult
                    /\ UNCHANGED <<idx, analyzed>>
               ELSE /\ result' = AppendTo(result, bucket, info)
                    /\ analyzed' = Append(analyzed,
                           [info |-> info, bucket |-> bucket, closes |-> candles.closes])
                    /\ idx' = idx + 1
                    /\ pc' = pc
    /\ clock' = clock + 1
    /\ UNCHANGED <<calcVars, paramVars, webVars, retVars, symbols, threshold, latest_json, loaded>>

\* the loop is over: totals and sorts; analyze_all_stocks and main return
FinishScan ==
    /\ pc = "scanning"
    /\ idx > Len(symbols)
    /\ result' = Finalize(result, Len(symbols))
    /\ pc' = "finished"
    /\ UNCHANGED <<calcVars, paramVars, webVars, retVars, symbols, threshold, idx, analyzed, skipped, clock,
                   latest_json, loaded>>

\* the files run_analysis_and_notify has written when it stops at the fault
WrittenBefore(dir, t, flt) ==
    IF flt.kind = "html_write" THEN dir
    ELSE IF flt.kind = "json_write" THEN WriteFile(dir, HtmlFile(t))
    ELSE IF flt.kind = "latest_write" THEN SaveReportFiles(dir, t)
    ELSE WriteFile(SaveReportFiles(dir, t), LatestResultFile(t))

\* run_analysis_and_notify with save_html, and the return to its caller: the
\* report and its JSON twin are written, result.to_dict() goes to
\* latest_result.json, old reports are cleaned. An exception of a write or
\* of the cleanup leaves run_analysis_and_notify; api_trigger answers 500
\* and _run_analysis_job logs it. On a return api_trigger installs the
\* result as latest_result.
SaveLatest ==
    /\ pc = "finished"
    /\ IF fault.kind \in WriteFaultKinds
       THEN /\ report_dir' = WrittenBefore(report_dir, now, fault)
            /\ pc' = "save_raised"
            /\ UNCHANGED <<latest_json, before_cleanup, rpc>>
       ELSE /\ latest_json' = to_dict(result)
            /\ before_cleanup' = WrittenBefore(report_dir, now, fault)
            /\ LET run == CleanupRun(before_cleanup', cleanup_section, now, fault)
               IN  /\ report_dir' = run.dir
                   /\ rpc' = IF run.raised THEN "raised" ELSE "cleaned"
                   /\ pc' = IF run.raised THEN "save_raised" ELSE "saved"
    /\ IF caller = "trigger"
       THEN /\ latest_result' = IF pc' = "saved" THEN result ELSE latest_result
            /\ response' = IF pc' = "saved" THEN "success" ELSE "error"
       ELSE UNCHANGED <<latest_result, response>>
    /\ UNCHANGED <<calcVars, paramVars, symbols, threshold, idx, result, analyzed, skipped,
                   clock, loaded, now, cleanup_section, fault, caller, serveVars>>

\* load_latest_result: from_dict(json.load(latest_result.json))
LoadLatest ==
    /\ pc = "saved"
    /\ latest_json # Missing
    /\ loaded' = from_dict(latest_json)
    /\ pc' = "loaded"
    /\ UNCHANGED <<calcVars, paramVars, webVars, retVars, symbols, threshold, idx, result, analyzed, skipped,
                   clock, latest_json>>

Next ==
    WatchlistFails \/ StartScan \/ AnalyzeStock \/ FinishScan \/ SaveLatest \/ LoadLatest

Spec == Init /\ [][Next]_vars

\* the scan over instruments quoted to four decimals
InitFine ==
    /\ closes = <<>>
    /\ boll = Pending
    /\ period = 3
    /\ k = DefaultK
    /\ den = RoundScale
    /\ \E w \in Watchlists : symbols = WatchlistSymbols(w)
    /\ threshold \in Thresholds
    /\ pc = "idle"
    /\ idx = 0
    /\ result = NoResult
    /\ analyzed = <<>>
    /\ skipped = <<>>
    /\ clock = 1
    /\ latest_json = Missing
    /\ loaded = NoResult
    /\ RetentionIdle
    /\ caller \in {"trigger", "job"}
    /\ latest_result = NoResult
    /\ response = "none"
    /\ ServeIdle

SpecFine == InitFine /\ [][Next]_vars

----------------------------------------------------------------------------
(* Retention harness: a report directory filled on earlier days, a scan    *)
(* that has just finished, and the cleanup run on its own or by the save.  *)

MaxAgeDays == 10

\* report_cleanup sections of config.yaml: absent, partial, one criterion
\* switched off, both switched off, cleanup disabled
ConfigSections ==
    {EmptyDict,
     [keep_days |-> 5],
     [enabled |-> TRUE, keep_days |-> 0, keep_count |-> 3],
     [enabled |-> TRUE, keep_days |-> 3, keep_count |-> 0],
     [enabled |-> TRUE, keep_days |-> 0, keep_count |-> 0],
     [enabled |-> FALSE, keep_days |-> 1, keep_count |-> 1],
     [enabled |-> TRUE, keep_days |-> 1, keep_count |-> 1]}

\* what an earlier scan of an empty watchlist left in latest_result.json
EarlierResult ==
    Finalize(NewResult(DefaultPeriod, DefaultK, MainThreshold, <<>>, SymbolToName(<<>>), 0), 0)

\* web/app.py at import: load_latest_result() reads latest_result.json or,
\* without it, the newest boll_report_*.json; every earlier report of the
\* model holds EarlierResult
LoadedAtStart(file, dir) ==
    IF file # Missing THEN from_dict(file)
    ELSE IF \E f \in dir : f.prefix = ReportPrefix /\ f.ext = "json" THEN EarlierResult
    ELSE NoResult

\* files of report/ besides the reports: none, or the latest-result file
\* and a latest_result.html next to it
OtherFiles == {{}, {LatestResultFile(0), StrayHtmlFile}}

StartTime == MaxAgeDays * DaySeconds

\* the instants at which something happens: the start, a second later, half
\* a day later, half a day and a second later
EventTimes == {StartTime + a + b : a \in {0, 1}, b \in {0, DaySeconds \div 2}}

InitRetention ==
    /\ closes = <<>>
    /\ boll = Pending
    /\ period = DefaultPeriod
    /\ k = DefaultK
    /\ den = 1
    /\ symbols = <<>>
    /\ threshold = MainThreshold
    /\ pc = "finished"
    /\ idx = 1
    /\ result = Finalize(NewResult(period, k, threshold, <<>>, SymbolToName(<<>>), 1), 0)
    /\ analyzed = <<>>
    /\ skipped = <<>>
    /\ clock = 1
    /\ loaded = NoResult
    /\ \E days \in SUBSET (0..(MaxAgeDays - 1)), others \in OtherFiles :
          /\ report_dir = others \cup
                UNION {{HtmlFile(d * DaySeconds), JsonFile(d * DaySeconds)} : d \in days}
          /\ latest_json = IF LatestResultFile(0) \in others
                           THEN to_dict(EarlierResult) ELSE Missing
    /\ now = StartTime
    /\ cleanup_section \in ConfigSections
    /\ before_cleanup = {}
    /\ rpc = "ready"
    /\ fault = NoFault
    /\ caller = "trigger"
    /\ latest_result = LoadedAtStart(latest_json, report_dir)
    /\ response = "none"
    /\ ServeIdle

\* time passes
Tick ==
    /\ rpc = "ready"
    /\ \E t \in EventTimes :
        /\ t > now
        /\ now' = t
    /\ UNCHANGED <<calcVars, paramVars, webVars, scanVars, report_dir, cleanup_section,
                   before_cleanup, rpc, fault>>

\* _cleanup_old_reports called on the directory as it is
Cleanup ==
    /\ rpc = "ready"
    /\ before_cleanup' = report_dir
    /\ LET run == CleanupRun(report_dir, cleanup_section, now, fault)
       IN  /\ report_dir' = run.dir
           /\ rpc' = IF run.raised THEN "raised" ELSE "cleaned"
    /\ UNCHANGED <<calcVars, paramVars, webVars, scanVars, now, cleanup_section, fault>>

NextRetention == Tick \/ Cleanup \/ SaveLatest

SpecRetention == InitRetention /\ [][NextRetention]_vars

----------------------------------------------------------------------------
(* Retention with one file going wrong: the same operations on a small     *)
(* directory, with every fault on every report of it.                      *)

MaxFaultDays == 4

FaultSections ==
    {EmptyDict,
     [enabled |-> TRUE, keep_days |-> 2, keep_count |-> 0],
     [enabled |-> TRUE, keep_days |-> 0, keep_count |-> 1],
     [enabled |-> TRUE, keep_days |-> 1, keep_count |-> 1],
     [enabled |-> TRUE, keep_days |-> 0, keep_count |-> 0],
     [enabled |-> FALSE, keep_days |-> 1, keep_count |-> 1]}

InitFaults ==
    /\ closes = <<>>
    /\ boll = Pending
    /\ period = DefaultPeriod
    /\ k = DefaultK
    /\ den = 1
    /\ symbols = <<>>
    /\ threshold = MainThreshold
    /\ pc = "finished"
    /\ idx = 1
    /\ result = Finalize(NewResult(period, k, threshold, <<>>, SymbolToName(<<>>), 1), 0)
    /\ analyzed = <<>>
    /\ skipped = <<>>
    /\ clock = 1
    /\ loaded = NoResult
    /\ latest_json = to_dict(EarlierResult)
    /\ \E days \in SUBSET ((MaxAgeDays - MaxFaultDays)..(MaxAgeDays - 1)) :
          /\ report_dir = {LatestResultFile(0)} \cup
                UNION {{HtmlFile(d * DaySeconds), JsonFile(d * DaySeconds)} : d \in days}
          /\ fault \in {NoFault} \cup
                [kind : FaultKinds, ts : {d * DaySeconds : d \in days}] \cup
                [kind : WriteFaultKinds, ts : {0}]
    /\ now = StartTime
    /\ cleanup_section \in FaultSections
    /\ before_cleanup = {}
    /\ rpc = "ready"
    /\ caller \in {"trigger", "job"}
    /\ latest_result = LoadedAtStart(latest_json, report_dir)
    /\ response = "none"
    /\ ServeIdle

SpecFaults == InitFaults /\ [][NextRetention]_vars

----------------------------------------------------------------------------
(* The running service (run.py): the scheduler's job thread and the request *)
(* threads of the web server each call run_analysis_and_notify; nothing in  *)
(* api_trigger, _run_analysis_job or run_analysis_and_notify takes a lock.  *)
(* A run is cut at its calls: main, the report writes, open and close of    *)
(* latest_result.json, the cleanup and the return. The scans are of an      *)
(* empty watchlist; they differ in their update_time.                       *)

\* latest_result.json between open(path, 'w') and the end of the with block:
\* empty or partly written
Truncated == [truncated |-> TRUE]

ScanResultAt(stamp) ==
    Finalize(NewResult(DefaultPeriod, DefaultK, MainThreshold, <<>>, SymbolToName(<<>>), stamp), 0)

InitServe ==
    /\ closes = <<>>
    /\ boll = Pending
    /\ period = DefaultPeriod
    /\ k = DefaultK
    /\ den = 1
    /\ symbols = <<>>
    /\ threshold = MainThreshold
    /\ pc = "idle"
    /\ idx = 0
    /\ result = NoResult
    /\ analyzed = <<>>
    /\ skipped = <<>>
    /\ clock = 1
    /\ loaded = NoResult
    /\ \/ /\ latest_json = Missing
          /\ report_dir = {}
       \/ /\ latest_json = to_dict(EarlierResult)
          /\ report_dir = {HtmlFile(0), JsonFile(0), LatestResultFile(0)}
    /\ now = DaySeconds
    /\ cleanup_section = EmptyDict
    /\ before_cleanup = {}
    /\ rpc = "ready"
    /\ fault = NoFault
    /\ caller = "trigger"
    /\ latest_result = LoadedAtStart(latest_json, report_dir)
    /\ response = "none"
    /\ ServeIdle

\* api_trigger (a request thread) or _run_analysis_job (the job thread)
\* calls run_analysis_and_notify, which calls main
StartRun(t) ==
    /\ runs[t].at = "idle"
    /\ runs' = [runs EXCEPT ![t].at = "scanning"]
    /\ UNCHANGED <<calcVars, paramVars, scanVars, retVars, caller, latest_result, response,
                   manager_config, config_file, token_reply, schedVars>>

\* main returns the result of the scan
ScanReturns(t) ==
    /\ runs[t].at = "scanning"
    /\ runs' = [runs EXCEPT ![t] = [at |-> "scanned", result |-> ScanResultAt(clock)]]
    /\ clock' = clock + 1
    /\ UNCHANGED <<calcVars, paramVars, retVars, symbols, threshold, pc, idx, result,
                   analyzed, skipped, latest_json, loaded, caller, latest_result, response,
                   manager_config, config_file, token_reply, schedVars>>

\* main returns None; run_analysis_and_notify returns None, api_trigger
\* answers 500
ScanFails(t) ==
    /\ runs[t].at = "scanning"
    /\ runs' = [runs EXCEPT ![t].at = "done"]
    /\ response' = IF t = JobThread THEN response ELSE "error"
    /\ UNCHANGED <<calcVars, paramVars, scanVars, retVars, caller, latest_result,
                   manager_config, config_file, token_reply, schedVars>>

\* save_html_report and json.dump to boll_report_<timestamp>.json
WriteReports(t) ==
    /\ runs[t].at = "scanned"
    /\ runs' = [runs EXCEPT ![t].at = "reports_written"]
    /\ report_dir' = SaveReportFiles(report_dir, now)
    /\ UNCHANGED <<calcVars, paramVars, scanVars, now, cleanup_section, before_cleanup, rpc,
                   fault, caller, latest_result, response, manager_config, config_file,
                   token_reply, schedVars>>

\* open("report/latest_result.json", 'w'): the file is truncated in place
OpenLatest(t) ==
    /\ runs[t].at = "reports_written"
    /\ runs' = [runs EXCEPT ![t].at = "latest_open"]
    /\ latest_json' = Truncated
    /\ report_dir' = WriteFile(report_dir, LatestResultFile(now))
    /\ UNCHANGED <<calcVars, paramVars, symbols, threshold, pc, idx, result, analyzed,
                   skipped, clock, loaded, now, cleanup_section, before_cleanup, rpc, fault,
                   caller, latest_result, response, manager_config, config_file, token_reply, schedVars>>

\* json.dump(result.to_dict(), f) and the end of the with block
CloseLatest(t) ==
    /\ runs[t].at = "latest_open"
    /\ runs' = [runs EXCEPT ![t].at = "latest_written"]
    /\ latest_json' = to_dict(runs[t].result)
    /\ UNCHANGED <<calcVars, paramVars, symbols, threshold, pc, idx, result, analyzed,
                   skipped, clock, loaded, retVars, caller, latest_result, response,
                   manager_config, config_file, token_reply, schedVars>>

\* _cleanup_old_reports, then the return: api_trigger installs the result
\* as latest_result and answers success, _run_analysis_job logs it
CleanupAndReturn(t) ==
    /\ runs[t].at = "latest_written"
    /\ runs' = [runs EXCEPT ![t].at = "done"]
    /\ before_cleanup' = report_dir
    /\ report_dir' = CleanupOldReports(report_dir, cleanup_section, now)
    /\ rpc' = "cleaned"
    /\ latest_result' = IF t = JobThread THEN latest_result ELSE runs[t].result
    /\ response' = IF t = JobThread THEN response ELSE "success"
    /\ UNCHANGED <<calcVars, paramVars, scanVars, now, cleanup_section, fault, caller,
                   manager_config, config_file, token_reply, schedVars>>

\* load_latest_result, as a starting web process calls it: json.load of a
\* truncated file raises, the except returns None
ReadLatest ==
    /\ loaded' = IF latest_json = Truncated THEN NoResult
                 ELSE LoadedAtStart(latest_json, report_dir)
    /\ UNCHANGED <<calcVars, paramVars, symbols, threshold, pc, idx, result, analyzed,
                   skipped, clock, latest_json, retVars, webVars>>

NextServe ==
    \/ \E t \in Threads :
          \/ StartRun(t)
          \/ ScanReturns(t)
          \/ ScanFails(t)
          \/ WriteReports(t)
          \/ OpenLatest(t)
          \/ CloseLatest(t)
          \/ CleanupAndReturn(t)
    \/ ReadLatest

SpecServe == InitServe /\ [][NextServe]_vars

----------------------------------------------------------------------------
(* The token update: api_update_token and ConfigManager.update_token *)

\* update_password as config.yaml or UPDATE_PASSWORD may set it
ConfiguredPasswords == {"", "secret"}
\* what a request may carry as password and as token
SubmittedPasswords == {"", "secret", "guess"}
SubmittedTokens == {"", "old", "new"}

\* the web sections of config.yaml: without update_password, or with one
WebSections == {EmptyDict} \cup {[update_password |-> pw] : pw \in ConfiguredPasswords}

\* LONGBRIDGE_ACCESS_TOKEN and UPDATE_PASSWORD in the environment; "" is unset
EnvTokens == {"", "env"}
EnvPasswords == {"", "secret"}

\* ConfigManager._apply_env_overrides: a non-empty variable replaces the
\* value read from the file
apply_env_overrides(cfg, env_token, env_password) ==
    [longbridge |-> IF env_token # "" THEN [access_token |-> env_token] ELSE cfg.longbridge,
     web        |-> IF env_password # "" THEN [update_password |-> env_password] ELSE cfg.web]

\* ConfigManager.get_web_config()["update_password"]
update_password_of(cfg) == Get(cfg.web, "update_password", "")

\* the password test with the check for an unset update_password left out
PasswordAcceptedIfEqual(update_password, password) ==
    password = update_password

\* the two tests of api_update_token: "not update_password" refuses with
\* 400, "password != update_password" with 401
PasswordAccepted(update_password, password) ==
    /\ update_password # ""
    /\ password = update_password

\* ConfigManager.update_token on the configuration in memory
update_token(cfg, token) == [cfg EXCEPT !.longbridge.access_token = token]

InitToken ==
    /\ closes = <<>>
    /\ boll = Pending
    /\ period = DefaultPeriod
    /\ k = DefaultK
    /\ den = 1
    /\ symbols = <<>>
    /\ threshold = DefaultThreshold
    /\ pc = "idle"
    /\ idx = 0
    /\ result = NoResult
    /\ analyzed = <<>>
    /\ skipped = <<>>
    /\ clock = 1
    /\ latest_json = Missing
    /\ loaded = NoResult
    /\ RetentionIdle
    /\ caller = "trigger"
    /\ latest_result = NoResult
    /\ response = "none"
    /\ runs = [t \in Threads |-> NotRunning]
    /\ \E web \in WebSections, env_token \in EnvTokens, env_password \in EnvPasswords :
          /\ config_file = [ShippedConfig EXCEPT !.web = web]
          /\ manager_config = apply_env_overrides(config_file, env_token, env_password)
    /\ token_reply = NoReply
    /\ ScheduleIdle

\* POST /api/update-token with a password and a token; save_config may fail
\* (update_token then returns False and the answer is 500)
api_update_token ==
    \E password \in SubmittedPasswords, token \in SubmittedTokens, saved \in BOOLEAN :
        LET update_password == update_password_of(manager_config)
            status == IF update_password = "" THEN 400
                      ELSE IF ~PasswordAccepted(update_password, password) THEN 401
                      ELSE IF saved THEN 200 ELSE 500
        IN  /\ token_reply' = [status |-> status, password |-> password, token |-> token]
            /\ IF PasswordAccepted(update_password, password)
               THEN /\ manager_config' = update_token(manager_config, token)
                    /\ config_file' = IF saved THEN manager_config' ELSE config_file
               ELSE UNCHANGED <<manager_config, config_file>>
            /\ UNCHANGED <<calcVars, paramVars, scanVars, retVars, caller, latest_result,
                           response, runs, schedVars>>

NextToken == api_update_token

SpecToken == InitToken /\ [][NextToken]_vars

----------------------------------------------------------------------------
(* The schedule: TaskScheduler.update_schedule, api_schedule, run.main *)

\* pytz.timezone(name) raises UnknownTimeZoneError for any other name
KnownTimezones == {"Asia/Shanghai", "UTC"}
RequestedTimezones == KnownTimezones \cup {"Mars/Olympus"}
\* hours and minutes a caller may ask for; 24 and 60 are out of range
RequestedHours == {9, 23, 24}
RequestedMinutes == {30, 60}

\* the JSON bodies of POST /api/schedule: hour or minute may be missing
ScheduleRequests ==
    {[hour |-> h, minute |-> m] : h \in RequestedHours, m \in RequestedMinutes}
        \cup {[hour |-> h] : h \in RequestedHours}
        \cup {[minute |-> m] : m \in RequestedMinutes}

\* CronTrigger(hour=, minute=) raises ValueError outside these ranges
CronAccepts(hour, minute) == hour \in 0..23 /\ minute \in 0..59

\* ConfigManager.update_schedule_config: the section in memory is assigned,
\* then save_config writes the file; an exception of the save is caught and
\* False is returned
update_schedule_config(cfg, file, hour, minute, timezone, saved) ==
    LET new == [hour |-> hour, minute |-> minute, timezone |-> timezone]
    IN  [config |-> new, file |-> IF saved THEN new ELSE file, returned |-> saved]

\* TaskScheduler.update_schedule: pytz.timezone, update_schedule_config,
\* then CronTrigger and reschedule_job on the job _setup_job has added; any
\* exception is caught and False is returned
update_schedule(cfg, file, trigger, hour, minute, timezone, saved, rescheduled) ==
    IF timezone \notin KnownTimezones
    THEN [config |-> cfg, file |-> file, trigger |-> trigger, returned |-> FALSE]
    ELSE LET upd == update_schedule_config(cfg, file, hour, minute, timezone, saved)
             new == [hour |-> hour, minute |-> minute, timezone |-> timezone]
         IN  IF ~upd.returned
             THEN [config |-> upd.config, file |-> upd.file, trigger |-> trigger,
                   returned |-> FALSE]
             ELSE IF CronAccepts(hour, minute) /\ rescheduled
             THEN [config |-> upd.config, file |-> upd.file, trigger |-> new,
                   returned |-> TRUE]
             ELSE [config |-> upd.config, file |-> upd.file, trigger |-> trigger,
                   returned |-> FALSE]

\* run.main: ConfigManager(), init_app(), TaskScheduler(config_manager),
\* scheduler.start(), the Flask thread; the schedule section of config.yaml
\* is the default one or one saved earlier
InitSchedule ==
    /\ closes = <<>>
    /\ boll = Pending
    /\ period = DefaultPeriod
    /\ k = DefaultK
    /\ den = 1
    /\ symbols = <<>>
    /\ threshold = DefaultThreshold
    /\ pc = "idle"
    /\ idx = 0
    /\ result = NoResult
    /\ analyzed = <<>>
    /\ skipped = <<>>
    /\ clock = 1
    /\ latest_json = Missing
    /\ loaded = NoResult
    /\ RetentionIdle
    /\ caller = "trigger"
    /\ latest_result = NoResult
    /\ response = "none"
    /\ runs = [t \in Threads |-> NotRunning]
    /\ manager_config = ShippedConfig
    /\ config_file = ShippedConfig
    /\ token_reply = NoReply
    /\ \E section \in {DefaultSchedule, [hour |-> 9, minute |-> 30, timezone |-> "UTC"]} :
          /\ schedule_file = section
          /\ schedule_config = section
          /\ job_trigger = section
    /\ scheduler_instance = "None"
    /\ schedule_reply = NoScheduleReply

\* a call of TaskScheduler.update_schedule(hour, minute, timezone); the save
\* of config.yaml and the rescheduling may fail
UpdateSchedule ==
    \E hour \in RequestedHours, minute \in RequestedMinutes,
       timezone \in RequestedTimezones, saved \in BOOLEAN, rescheduled \in BOOLEAN :
        LET out == update_schedule(schedule_config, schedule_file, job_trigger,
                                   hour, minute, timezone, saved, rescheduled)
        IN  /\ schedule_config' = out.config
            /\ schedule_file' = out.file
            /\ job_trigger' = out.trigger
            /\ schedule_reply' = [op |-> "update_schedule", hour |-> hour, minute |-> minute,
                                  timezone |-> timezone, returned |-> out.returned]
            /\ UNCHANGED <<calcVars, paramVars, scanVars, retVars, caller, latest_result,
                           response, runs, manager_config, config_file, token_reply,
                           scheduler_instance>>

\* the checks of api_schedule on the body of a POST: "" when it passes
ScheduleRequestError(data) ==
    IF "hour" \notin DOMAIN data \/ "minute" \notin DOMAIN data THEN "missing"
    ELSE IF ~(0 <= data.hour /\ data.hour <= 23) THEN "hour"
    ELSE IF ~(0 <= data.minute /\ data.minute <= 59) THEN "minute"
    ELSE ""

\* POST /api/schedule: 400 for a bad body; 500 when get_scheduler() gives
\* None; otherwise update_schedule(hour, minute) on the scheduler
ApiSchedulePost ==
    \E data \in ScheduleRequests, saved \in BOOLEAN, rescheduled \in BOOLEAN :
        LET error == ScheduleRequestError(data)
            out == update_schedule(schedule_config, schedule_file, job_trigger,
                                   data.hour, data.minute, DefaultSchedule.timezone,
                                   saved, rescheduled)
        IN  /\ IF error # ""
               THEN /\ schedule_reply' = [op |-> "api_schedule", data |-> data,
                                          status |-> 400, message |-> error]
                    /\ UNCHANGED <<schedule_config, schedule_file, job_trigger>>
               ELSE IF scheduler_instance = "None"
               THEN /\ schedule_reply' = [op |-> "api_schedule", data |-> data,
                                          status |-> 500, message |-> "not_initialized"]
                    /\ UNCHANGED <<schedule_config, schedule_file, job_trigger>>
               ELSE /\ schedule_reply' =
                           [op |-> "api_schedule", data |-> data,
                            status |-> IF out.returned THEN 200 ELSE 500,
                            message |-> IF out.returned THEN "updated" ELSE "failed"]
                    /\ schedule_config' = out.config
                    /\ schedule_file' = out.file
                    /\ job_trigger' = out.trigger
            /\ UNCHANGED <<calcVars, paramVars, scanVars, retVars, caller, latest_result,
                           response, runs, manager_config, config_file, token_reply,
                           scheduler_instance>>

NextSchedule == UpdateSchedule \/ ApiSchedulePost

SpecSchedule == InitSchedule /\ [][NextSchedule]_vars

----------------------------------------------------------------------------
(* Claims about calculate_boll, checked under SpecBoll *)

Window == RecentCloses(closes, period)

WindowVaries == \E i, j \in DOMAIN Window : Window[i] # Window[j]

\* C5: a series shorter than period gives None and a series of at least
\* period prices (period >= 1) gives a record with upper, mid and lower.
C5_BandsIffEnoughData ==
    boll # Pending =>
        IF Len(closes) < period THEN boll = NoBands ELSE boll.kind = "bands"

\* C7: when the trailing window is not constant (k > 0) the returned bands
\* are strictly ordered, lower < mid < upper.
C7_StrictlyOrdered ==
    (boll.kind = "bands" /\ WindowVaries /\ k > 0) =>
        (boll.lower < boll.mid /\ boll.mid < boll.upper)

\* m is a nearest multiple of 1/RoundScale to (S/n + c * sigma) / dn, where
\* S is the sum of the n prices of w and sigma^2 = Q / (n * (n - 1)) is their
\* sample variance, Q = n * sum(x^2) - S^2.  SurdSq: sign of
\* (c * sigma)^2 - (y / (2 * RoundScale * n))^2.
SurdSq(c, Q, n, y) ==
    CmpProd(4 * c * c * Q * n * 100, RoundScale * 100, Abs(y) * (n - 1), Abs(y))

SurdGE(c, Q, n, y) ==
    IF c >= 0 THEN y <= 0 \/ SurdSq(c, Q, n, y) >= 0
    ELSE y <= 0 /\ SurdSq(c, Q, n, y) <= 0

SurdLE(c, Q, n, y) ==
    IF c >= 0 THEN y >= 0 /\ SurdSq(c, Q, n, y) <= 0
    ELSE y >= 0 \/ SurdSq(c, Q, n, y) >= 0

IsRound4Of(m, w, c, dn) ==
    LET n == Len(w)
        S == SeqSum(w)
        Q == n * SeqSumSq(w) - S * S
    IN  /\ SurdGE(c, Q, n, (2 * m - 1) * dn * n - 2 * RoundScale * S)
        /\ SurdLE(c, Q, n, (2 * m + 1) * dn * n - 2 * RoundScale * S)

C6_FromWindow ==
    boll.kind = "bands" =>
        /\ IsRound4Of(boll.mid, Window, 0, den)
        /\ IsRound4Of(boll.upper, Window, k, den)
        /\ IsRound4Of(boll.lower, Window, -k, den)

C6_SameWindowSameBands ==
    (/\ boll.kind = "bands"
     /\ Len(closes') >= period
     /\ RecentCloses(closes', period) = Window) => boll' = boll

\* C6: the returned bands are the mean, and the mean plus and minus k sample
\* standard deviations (divisor period - 1), of the last period prices, each
\* to the nearest 0.0001; a series that agrees on its last period prices
\* gives the same bands whatever earlier prices it holds.
C6_TrailingWindowOnly == []C6_FromWindow /\ [][C6_SameWindowSameBands]_vars

C6_Witness ==
    /\ boll.kind = "bands"
    /\ Len(closes) > period
    /\ WindowVaries
    /\ closes[1] > SeqMax(Window)
    /\ den = 1

\* the part of C7 that the rounded bands do satisfy
C7_WeaklyOrdered ==
    boll.kind = "bands" => (boll.lower <= boll.mid /\ boll.mid <= boll.upper)

----------------------------------------------------------------------------
(* Claims about the scan and the result model, checked under Spec *)

Range(seq) == {seq[i] : i \in DOMAIN seq}

Returned == pc \in {"finished", "saved", "loaded", "save_raised"}

Building == pc = "scanning" \/ Returned

\* the four conditions of the classification rule, on a StockInfo
BelowLowerCond(info) == info.current_price * RoundScale < info.lower_band * den
AboveUpperCond(info) == info.current_price * RoundScale > info.upper_band * den
NearLowerCond(info) ==
    RatCmp(info.distance_from_lower_pct, Rat(threshold.num * 100, threshold.den)) <= 0
NearUpperCond(info) ==
    RatCmp(RatAbs(info.distance_from_upper_pct),
           Rat(threshold.num * 100, threshold.den)) <= 0

\* first match wins, in the order (1) (2) (3) (4) (5)
RuleBucket(info) ==
    CASE BelowLowerCond(info) -> "below_lower"
      [] ~BelowLowerCond(info) /\ AboveUpperCond(info) -> "above_upper"
      [] ~BelowLowerCond(info) /\ ~AboveUpperCond(info) /\ NearLowerCond(info)
            -> "near_lower"
      [] ~BelowLowerCond(info) /\ ~AboveUpperCond(info) /\ ~NearLowerCond(info)
            /\ NearUpperCond(info) -> "near_upper"
      [] OTHER -> "normal"

SymbolsIn(bucket) == {result[bucket][i].symbol : i \in DOMAIN result[bucket]}

\* C1: every analyzed instrument is in the bucket of the first matching rule
\* and in no other; one that is both near the lower and near the upper band is
\* in near_lower only; no instrument is in two buckets, or twice in one.
C1_FirstMatchWins ==
    Building =>
        /\ \A i \in DOMAIN analyzed :
              \A b \in Buckets :
                  (analyzed[i].info \in Range(result[b])) <=> (b = RuleBucket(analyzed[i].info))
        /\ \A b \in Buckets : Range(result[b]) \subseteq {analyzed[i].info : i \in DOMAIN analyzed}
        /\ \A b1, b2 \in Buckets : b1 # b2 => SymbolsIn(b1) \cap SymbolsIn(b2) = {}
        /\ \A b \in Buckets : Cardinality(SymbolsIn(b)) = Len(result[b])

C1_Witness ==
    /\ Returned
    /\ \E i \in DOMAIN analyzed :
          /\ NearLowerCond(analyzed[i].info)
          /\ NearUpperCond(analyzed[i].info)
          /\ ~BelowLowerCond(analyzed[i].info)
          /\ ~AboveUpperCond(analyzed[i].info)
          /\ analyzed[i].info \in Range(result.near_lower)
    /\ \E i \in DOMAIN analyzed : RuleBucket(analyzed[i].info) = "normal"

PriceEquals(info, band) == info.current_price * RoundScale = band * den

ThresholdBucket(info) ==
    IF NearLowerCond(info) THEN "near_lower"
    ELSE IF NearUpperCond(info) THEN "near_upper"
    ELSE "normal"

\* C2: a price equal to the lower band is not in below_lower and a price equal
\* to the upper band is not in above_upper; such an instrument gets the bucket
\* the two threshold checks give it.
C2_StrictBandComparison ==
    Building =>
        \A i \in DOMAIN analyzed :
            LET info == analyzed[i].info
            IN  /\ PriceEquals(info, info.lower_band) =>
                      /\ info \notin Range(result.below_lower)
                      /\ analyzed[i].bucket = ThresholdBucket(info)
                /\ PriceEquals(info, info.upper_band) =>
                      /\ info \notin Range(result.above_upper)
                      /\ analyzed[i].bucket = ThresholdBucket(info)

C2_Witness ==
    /\ Returned
    /\ \E i \in DOMAIN analyzed :
          /\ PriceEquals(analyzed[i].info, analyzed[i].info.lower_band)
          /\ analyzed[i].info.lower_band < analyzed[i].info.upper_band
          /\ analyzed[i].info \in Range(result.near_lower)
    /\ \E i \in DOMAIN analyzed :
          /\ PriceEquals(analyzed[i].info, analyzed[i].info.upper_band)
          /\ analyzed[i].info.lower_band < analyzed[i].info.upper_band
          /\ analyzed[i].info \in Range(result.near_upper)

BucketLengths(res) ==
    Len(res.below_lower) + Len(res.near_lower) + Len(res.near_upper) + Len(res.above_upper)

\* C3: in the result analyze_all_stocks returns, and in the result from_dict
\* builds from the persisted JSON, total_found is the sum of the four bucket
\* lengths.
C3_TotalFoundIsBucketSum ==
    /\ Returned => result.total_found = BucketLengths(result)
    /\ loaded # NoResult => loaded.total_found = BucketLengths(loaded)

C3_Witness ==
    /\ pc = "loaded"
    /\ loaded.total_found = 2
    /\ Len(loaded.near_upper) = 1
    /\ Len(loaded.below_lower) = 1

ResultFields ==
    {"period", "k", "threshold", "total_analyzed", "total_found", "update_time",
     "below_lower", "near_lower", "near_upper", "above_upper",
     "all_symbols", "symbol_to_name"}

\* C4: from_dict(to_dict(r)) has the same period, k, threshold, totals,
\* update_time, buckets (same snapshots, same order), all_symbols and
\* symbol_to_name as r, for every returned result r; so has the result loaded
\* back from the persisted file.
C4_RoundTrip ==
    /\ Returned => \A f \in ResultFields : from_dict(to_dict(result))[f] = result[f]
    /\ loaded # NoResult => \A f \in ResultFields : loaded[f] = result[f]

C4_Witness ==
    /\ pc = "loaded"
    /\ loaded = result
    /\ Len(result.near_upper) = 1
    /\ Len(result.near_lower) = 1
    /\ result.total_analyzed = 2

\* the worked example: 100, 101, ..., 121 with period 22 and k = 2
WorkedCase(a) ==
    a.closes = WorkedSeries /\ period = DefaultPeriod /\ k = DefaultK /\ den = 1

Near(x, target, tol) == Abs(x - target) <= tol

\* C8 as stated: mid 110.5, standard deviation about 6.345, upper about
\* 123.19, lower about 97.81, and a price of 96 is below_lower.
C8_WorkedExampleAsStated ==
    Building =>
        \A i \in DOMAIN analyzed :
            WorkedCase(analyzed[i]) =>
                LET info == analyzed[i].info
                IN  /\ info.mid_band = 1105000
                    /\ Near(info.upper_band - info.mid_band, DefaultK * 63450, 100)
                    /\ Near(info.upper_band, 1231900, 50)
                    /\ Near(info.lower_band, 978100, 50)
                    /\ info.current_price = 96 => analyzed[i].bucket = "below_lower"

\* C8 amended: mid 110.5, sample standard deviation about 6.494, upper
\* 123.4872, lower 97.5128, and a price of 96 is below_lower.
C8_WorkedExample ==
    Building =>
        \A i \in DOMAIN analyzed :
            WorkedCase(analyzed[i]) =>
                LET info == analyzed[i].info
                IN  /\ info.mid_band = 1105000
                    /\ Near(info.upper_band - info.mid_band, DefaultK * 64936, 1)
                    /\ info.upper_band = 1234872
                    /\ info.lower_band = 975128
                    /\ info.current_price = 96 =>
                          /\ analyzed[i].bucket = "below_lower"
                          /\ info \in Range(result.below_lower)

C8_Witness ==
    /\ Returned
    /\ \E i \in DOMAIN analyzed :
          /\ WorkedCase(analyzed[i])
          /\ analyzed[i].info.current_price = 96
          /\ analyzed[i].info \in Range(result.below_lower)

\* the symbols of the instruments whose data failed / that got a StockInfo
SkippedSymbols == {skipped[i].symbol : i \in DOMAIN skipped}
AnalyzedSymbols == {analyzed[i].info.symbol : i \in DOMAIN analyzed}
InSomeBucket(symbol) == \E b \in Buckets : symbol \in SymbolsIn(b)

C13_SkippedLeftOut ==
    /\ Building => \A sym \in SkippedSymbols : ~InSomeBucket(sym)
    /\ Returned =>
          /\ result # NoResult
          /\ SkippedSymbols \cup AnalyzedSymbols = Range(symbols)
          /\ Len(skipped) + Len(analyzed) = Len(symbols)

C13_SkipGoesOn ==
    Len(skipped') > Len(skipped) =>
        /\ pc' = "scanning"
        /\ idx' = idx + 1
        /\ result' = result

\* C13: an instrument whose history is too short, whose history or quote
\* call raises, or whose quote is missing is in none of the four buckets;
\* the step that meets it moves on to the next instrument without touching
\* the result, and a scan that returns has gone through every instrument.
C13_DataFailureNeverAborts == []C13_SkippedLeftOut /\ [][C13_SkipGoesOn]_vars

\* the first instrument fails, the second is analysed and put in a bucket
C13_Witness ==
    /\ pc = "finished"
    /\ Len(symbols) = 2
    /\ Len(skipped) = 1
    /\ skipped[1].symbol = symbols[1]
    /\ skipped[1].cause = "candles_raise"
    /\ InSomeBucket(symbols[2])

\* C21: total_analyzed of a returned result is the number of instruments
\* that got a StockInfo; the instruments skipped for short history or a
\* missing quote are not counted.
C21_TotalAnalyzedCountsAnalyzed ==
    Returned => result.total_analyzed = Len(analyzed)

\* the buckets that hold the StockInfo
BucketsOf(info) == {b \in Buckets : info \in Range(result[b])}

\* rule (5): inside the bands and farther than the threshold from both
InNormalRange(info) ==
    /\ ~BelowLowerCond(info)
    /\ ~AboveUpperCond(info)
    /\ ~NearLowerCond(info)
    /\ ~NearUpperCond(info)

\* C22 as stated: every instrument that got bands and a price is in exactly
\* one of the four buckets.
C22_BucketsExhaustive ==
    Building => \A i \in DOMAIN analyzed : Cardinality(BucketsOf(analyzed[i].info)) = 1

\* C22: the four buckets are mutually exclusive, and exhaustive over the
\* analyzed instruments outside the normal range: an instrument that got
\* bands and a price is in exactly one bucket, unless it is in the normal
\* range (rule 5), and then it is in none; total_found counts the others.
C22_BucketsCoverReported ==
    /\ Building =>
          \A i \in DOMAIN analyzed :
              Cardinality(BucketsOf(analyzed[i].info))
                  = IF InNormalRange(analyzed[i].info) THEN 0 ELSE 1
    /\ Returned =>
          result.total_found
              = Cardinality({i \in DOMAIN analyzed : ~InNormalRange(analyzed[i].info)})

\* a scan returned with one instrument in the normal range, in no bucket,
\* and one in a bucket
C22_Witness ==
    /\ pc = "finished"
    /\ Len(analyzed) = 2
    /\ InNormalRange(analyzed[1].info)
    /\ BucketsOf(analyzed[1].info) = {}
    /\ BucketsOf(analyzed[2].info) = {"near_upper"}
    /\ result.total_found = 1

\* C23: an instrument whose upper and lower band are equal is in none of
\* the four buckets.
C23_DegenerateBandLeftOut ==
    Building =>
        \A i \in DOMAIN analyzed :
            analyzed[i].info.upper_band = analyzed[i].info.lower_band
                => BucketsOf(analyzed[i].info) = {}

\* C24: the position_pct of every snapshot in a bucket is between 0 and 100.
C24_PositionWithinRange ==
    Building =>
        \A b \in Buckets : \A i \in DOMAIN result[b] :
            /\ RatCmp(result[b][i].position_pct, Rat(0, 1)) >= 0
            /\ RatCmp(result[b][i].position_pct, Rat(100, 1)) <= 0

\* C25: update_time of a returned result is not earlier than the end of the
\* last pass of the loop (the clock advances with every pass, that is with
\* every exchange with the provider).
C25_UpdateTimeAtCompletion ==
    Returned => result.update_time >= clock

\* The exact bands of the window w are S/n -+ kk * sigma with S the sum of
\* its n prices and sigma^2 = Q / (n * (n - 1)), Q = n * sum(x^2) - S^2.
\* price < S/n - kk * sigma  iff  S - n * price > 0 and
\* kk^2 * Q * n < (S - n * price)^2 * (n - 1); likewise above the upper band.
BeyondExactBand(gap, w, kk) ==
    LET n == Len(w)
        Q == n * SeqSumSq(w) - SeqSum(w) * SeqSum(w)
    IN  gap > 0 /\ kk * kk * Q * n < gap * gap * (n - 1)

ExactBelowLower(price, w, kk) == BeyondExactBand(SeqSum(w) - Len(w) * price, w, kk)
ExactAboveUpper(price, w, kk) == BeyondExactBand(Len(w) * price - SeqSum(w), w, kk)

\* C26: the comparisons of the classifier come out as they would with the
\* exact bands: an instrument is in below_lower exactly when its price is
\* below the unrounded lower band, and in above_upper exactly when it is
\* above the unrounded upper band.
C26_ClassifiedAsWithExactBands ==
    Building =>
        \A i \in DOMAIN analyzed :
            LET w     == RecentCloses(analyzed[i].closes, period)
                price == analyzed[i].info.current_price
            IN  /\ analyzed[i].bucket = "below_lower" <=> ExactBelowLower(price, w, k)
                /\ analyzed[i].bucket = "above_upper" <=> ExactAboveUpper(price, w, k)

\* C27: once a scan has gone through run_analysis_and_notify, started by
\* the job or by the trigger, the latest_result of the web module is the
\* result of that scan and equals what latest_result.json holds; a scan
\* that failed leaves latest_result as it was.
C27_DashboardShowsLatestScan ==
    /\ pc \in {"saved", "loaded"} =>
          /\ latest_result = result
          /\ to_dict(latest_result) = latest_json
    /\ pc \in {"failed", "save_raised"} => latest_result = NoResult

\* C14: an instrument whose lower band is zero or negative is in none of the
\* four buckets, and the loop of analyze_all_stocks never ends in an
\* exception (the scan fails only when the watchlist cannot be read).
C14_NonPositiveLowerBandSkipped ==
    /\ \A i \in DOMAIN analyzed :
          analyzed[i].info.lower_band <= 0 => analyzed[i].bucket = "normal"
    /\ pc = "failed" => idx = 0

FatalCauses == {"candles_auth", "quote_auth"}

\* C18: a scan during which the provider rejected the credentials does not
\* return a result.
C18_FatalErrorAbortsScan ==
    (\E i \in DOMAIN skipped : skipped[i].cause \in FatalCauses) => ~Returned

SortedBy(seq, field, descending) ==
    \A i, j \in DOMAIN seq :
        i < j => IF descending THEN RatCmp(seq[i][field], seq[j][field]) >= 0
                 ELSE RatCmp(seq[i][field], seq[j][field]) <= 0

PutIn(b) == {analyzed[i].info : i \in {j \in DOMAIN analyzed : analyzed[j].bucket = b}}

----------------------------------------------------------------------------
(* Claims about retention, checked under SpecRetention *)

CleanupRan == rpc = "cleaned"
Policy == get_report_cleanup_config(cleanup_section)

\* an artifact is a report page and the files that share its timestamp; it
\* is named by the timestamp
Artifacts(dir) == {f.ts : f \in HtmlFiles(dir)}
FilesOf(dir, ts) == {f \in dir : f.prefix = ReportPrefix /\ f.ts = ts}
Deleted(ts) == FilesOf(report_dir, ts) = {}
Intact(ts) == FilesOf(report_dir, ts) = FilesOf(before_cleanup, ts)
ModifiedAt(ts) ==
    (CHOOSE f \in before_cleanup :
        f.prefix = ReportPrefix /\ f.ts = ts /\ f.ext = "html").mtime

OlderThanKeepDays(ts) ==
    /\ Policy.keep_days > 0
    /\ now - ModifiedAt(ts) > Policy.keep_days * DaySeconds

\* how many artifacts were modified more recently
NewerCount(ts) ==
    Cardinality({u \in Artifacts(before_cleanup) : ModifiedAt(u) > ModifiedAt(ts)})

BeyondKeepCount(ts) ==
    /\ Policy.keep_count > 0
    /\ NewerCount(ts) >= Policy.keep_count

AgesInDays(n) == {d * DaySeconds : d \in 1..n}
TenArtifactsAgedOneToTen ==
    /\ {now - ModifiedAt(ts) : ts \in Artifacts(before_cleanup)} = AgesInDays(10)
    /\ \A ts \in Artifacts(before_cleanup) : Cardinality(FilesOf(before_cleanup, ts)) = 2

\* C9: after _cleanup_old_reports has run with cleanup enabled, an artifact
\* that was in the directory is gone if and only if it is older than
\* keep_days (keep_days > 0) or at least keep_count artifacts are more
\* recent (keep_count > 0), and an artifact that is not gone is untouched;
\* of 10 artifacts aged 1..10 days, keep_days=5 and keep_count=100 delete
\* exactly the 5 that are older than 5 days.
C9_RetentionIsUnion ==
    (CleanupRan /\ Policy.enabled) =>
        /\ \A ts \in Artifacts(before_cleanup) :
              /\ Deleted(ts) <=> (OlderThanKeepDays(ts) \/ BeyondKeepCount(ts))
              /\ ~Deleted(ts) => Intact(ts)
        /\ (TenArtifactsAgedOneToTen /\ Policy.keep_days = 5 /\ Policy.keep_count = 100) =>
              /\ Cardinality(Artifacts(before_cleanup) \ Artifacts(report_dir)) = 5
              /\ {now - ts : ts \in Artifacts(report_dir)} = AgesInDays(5)

C9_Witness ==
    /\ CleanupRan
    /\ Policy = [enabled |-> TRUE, keep_days |-> 5, keep_count |-> 100]
    /\ TenArtifactsAgedOneToTen
    /\ Cardinality(Artifacts(report_dir)) = 5
    /\ \A ts \in Artifacts(before_cleanup) : Deleted(ts) <=> now - ts > 5 * DaySeconds

MostRecent(n) == {ts \in Artifacts(before_cleanup) : NewerCount(ts) < n}

\* C10: a parameter of 0 switches its criterion off. With keep_days = 0 an
\* artifact is deleted only for its rank, with keep_count = 0 only for its
\* age; keep_days = 0 and keep_count = 3 leave exactly the 3 most recently
\* modified artifacts (all of them when there are fewer); with both 0, or
\* with enabled = false, the directory is left as it was.
C10_ZeroDisablesCriterion ==
    CleanupRan =>
        /\ Policy.keep_days = 0 =>
              \A ts \in Artifacts(before_cleanup) :
                  (Policy.keep_count = 0 \/ NewerCount(ts) < Policy.keep_count) => Intact(ts)
        /\ Policy.keep_count = 0 =>
              \A ts \in Artifacts(before_cleanup) :
                  (Policy.keep_days = 0
                     \/ now - ModifiedAt(ts) <= Policy.keep_days * DaySeconds) => Intact(ts)
        /\ (Policy.enabled /\ Policy.keep_days = 0 /\ Policy.keep_count = 3) =>
              /\ Artifacts(report_dir) = MostRecent(3)
              /\ \A ts \in MostRecent(3) : Intact(ts)
        /\ ((Policy.keep_days = 0 /\ Policy.keep_count = 0) \/ ~Policy.enabled) =>
              report_dir = before_cleanup

C10_Witness ==
    /\ CleanupRan
    /\ Policy = [enabled |-> TRUE, keep_days |-> 0, keep_count |-> 3]
    /\ Cardinality(Artifacts(before_cleanup)) >= 5
    /\ Cardinality(Artifacts(report_dir)) = 3
    /\ \E ts \in Artifacts(report_dir) : now - ts > 5 * DaySeconds

\* the files of a directory that are no timestamped report
NotReports(dir) == {f \in dir : f.prefix # ReportPrefix}
LatestInDir(dir) == \E f \in dir : f.prefix = LatestPrefix /\ f.ext = "json"

\* C11: whatever the policy and whatever the directory holds, a run of
\* _cleanup_old_reports leaves report/latest_result.json (and every other
\* file that is no boll_report_* file) in place, with its content.
C11_LatestResultKept ==
    rpc # "ready" =>
        /\ NotReports(before_cleanup) \subseteq report_dir
        /\ LatestInDir(before_cleanup) => (LatestInDir(report_dir) /\ latest_json # Missing)

\* every timestamped report is deleted, the latest-result file stays
C11_Witness ==
    /\ CleanupRan
    /\ Cardinality(Artifacts(before_cleanup)) >= 3
    /\ Artifacts(report_dir) = {}
    /\ LatestResultFile(0) \in report_dir
    /\ StrayHtmlFile \in report_dir
    /\ latest_json = to_dict(EarlierResult)

----------------------------------------------------------------------------
(* Claims about a cleanup in which one file goes wrong, checked under SpecFaults *)

MarkedByPolicy(ts) == OlderThanKeepDays(ts) \/ BeyondKeepCount(ts)

\* C12: a failure on one report (its file cannot be removed, or it has
\* already disappeared) does not stop the run of _cleanup_old_reports: no
\* exception leaves the function, and every other report the policy marks
\* is deleted.
C12_FailureDoesNotStopRun ==
    rpc # "ready" =>
        /\ rpc = "cleaned"
        /\ Policy.enabled =>
              \A ts \in Artifacts(before_cleanup) :
                  (ts # fault.ts /\ MarkedByPolicy(ts)) => Deleted(ts)

\* the part of C12 the code keeps: when unlink raises, the exception is
\* caught and the other marked reports are deleted
UnlinkFailureContained ==
    (rpc # "ready" /\ fault.kind \in {"none", "html_locked", "json_locked"}) =>
        /\ rpc = "cleaned"
        /\ Policy.enabled =>
              \A ts \in Artifacts(before_cleanup) :
                  (ts # fault.ts /\ MarkedByPolicy(ts)) => Deleted(ts)

\* C15: when a write of the report, of its JSON or of latest_result.json,
\* or the pruning, fails, run_analysis_and_notify still returns the result:
\* no exception leaves it, and a manual trigger answers success and installs
\* the result as latest_result.
C15_PersistenceBestEffort ==
    /\ pc # "save_raised"
    /\ (caller = "trigger" /\ pc \in {"saved", "save_raised"}) =>
          /\ response = "success"
          /\ latest_result = result

----------------------------------------------------------------------------
(* Claims about the running service, checked under SpecServe *)

InFlight == {t \in Threads : runs[t].at \notin {"idle", "done"}}

\* C16: at most one call of run_analysis_and_notify is in flight at any
\* time, whether started by the scheduler's job or by a manual trigger.
C16_AtMostOneScan == Cardinality(InFlight) <= 1

\* C17: latest_result.json is replaced atomically: at every instant it is
\* absent or holds a complete result, never an empty or partly written
\* file, so that a reader never fails on it.
C17_LatestNeverTorn == latest_json # Truncated

----------------------------------------------------------------------------
(* Claims about the token update, checked under SpecToken *)

TokenInMemory(cfg) == cfg.longbridge.access_token

C20_Refused ==
    token_reply.status \in {400, 401} <=>
        (token_reply.status # 0
           /\ (update_password_of(manager_config) = ""
                 \/ token_reply.password # update_password_of(manager_config)))

C20_ChangeNeedsPassword ==
    /\ (TokenInMemory(manager_config') # TokenInMemory(manager_config)
          \/ TokenInMemory(config_file') # TokenInMemory(config_file)) =>
          /\ update_password_of(manager_config) # ""
          /\ token_reply'.password = update_password_of(manager_config)
    /\ token_reply'.status \in {400, 401} =>
          /\ manager_config' = manager_config
          /\ config_file' = config_file
    /\ update_password_of(manager_config') = update_password_of(manager_config)

Unpaired(dir) ==
    {f \in dir : /\ f.prefix = ReportPrefix
                 /\ ~\E g \in dir : g.prefix = f.prefix /\ g.ts = f.ts /\ g.ext # f.ext}

\* C29: when _cleanup_old_reports has returned, every boll_report_<ts>.html
\* in the directory has its boll_report_<ts>.json and the other way round.
C29_ArtifactsStayPaired ==
    rpc = "cleaned" => Unpaired(report_dir) = {}

----------------------------------------------------------------------------
(* Claims about the schedule, checked under SpecSchedule *)

Asked(reply) == [hour |-> reply.hour, minute |-> reply.minute, timezone |-> reply.timezone]

\* C28: a call of update_schedule that returns True leaves the schedule in
\* memory, the schedule in config.yaml and the trigger of the job at the
\* new hour, minute and timezone; one that returns False leaves all three
\* as they were.
C28_UpdateScheduleAllOrNothing ==
    [][schedule_reply'.op = "update_schedule" =>
          IF schedule_reply'.returned
          THEN /\ schedule_config' = Asked(schedule_reply')
               /\ schedule_file' = Asked(schedule_reply')
               /\ job_trigger' = Asked(schedule_reply')
          ELSE /\ schedule_config' = schedule_config
               /\ schedule_file' = schedule_file
               /\ job_trigger' = job_trigger]_vars

\* C30: in the system run.main has started, a POST /api/schedule with hour
\* in 0..23 and minute in 0..59 is not answered "scheduler not initialized";
\* one with hour or minute missing or out of range is answered 400 and
\* changes neither the configuration nor the trigger.
C30_WebReachesScheduler ==
    [][schedule_reply'.op = "api_schedule" =>
          IF ScheduleRequestError(schedule_reply'.data) = ""
          THEN schedule_reply'.message # "not_initialized"
          ELSE /\ schedule_reply'.status = 400
               /\ schedule_config' = schedule_config
               /\ schedule_file' = schedule_file
               /\ job_trigger' = job_trigger]_vars

====
